---- MODULE Spec2Model ----
(***************************************************************************)
(* Model of advanced-vector/vector.h: RawMemory<T> (raw storage) and       *)
(* Vector<T> (the growable array built on it).                             *)
(*                                                                         *)
(* The heap is a map from region ids to the slots of the region; a slot    *)
(* holds Raw (no object), a value of T, or Unspec (a moved-from object or  *)
(* the content of memory the program does not own).  Every public          *)
(* operation of Vector is one action; the element operations that may      *)
(* throw are counted and the t-th one of a call throws (t = 0: none).      *)
(***************************************************************************)
EXTENDS Integers, Sequences, FiniteSets, TLC

\* ---------------------------------------------------------------- bounds
\* The largest capacity: of the one vector of SpecOne, of the two vectors of Spec,
\* and of the vector of the append-only runs of SpecAppend.
MaxCap == 4
MaxCapPair == 2
MaxAppendCap == 8

Vecs == {1, 2}
Values == {1, 2}
Regions == {1, 2, 3}

\* A slot of raw storage that holds no object.
Raw == -1
\* A moved-from object, or what a read of memory outside owned storage gives.
Unspec == 0
\* T(), the value-initialised element.
DefaultT == 1
\* nullptr
Null == 0

VARIABLES
    alive,          \* alive[v]: the Vector object v is constructed
    data_,          \* data_[v] = [buffer_, capacity_], the RawMemory member
    size_,          \* size_[v]
    mem,            \* mem[r]: the slots of region r, <<>> when r is not allocated
    res,            \* the last call: operation, target, arguments, outcome
    appends,        \* appends[v]: successful appends since v was default-constructed
                    \* with nothing else done to v, or -1
    nothrow_move,   \* std::is_nothrow_move_constructible_v<T>
    copyable        \* std::is_copy_constructible_v<T>

vars == <<alive, data_, size_, mem, res, appends, nothrow_move, copyable>>

\* ---------------------------------------------------------------- memory
Min(S) == CHOOSE x \in S : \A y \in S : x <= y

Live(m, b) == b \in Regions /\ Len(m[b]) > 0

Valid(m, b, i) == b \in Regions /\ i >= 0 /\ i < Len(m[b])

FreeRegions(m) == {r \in Regions : m[r] = <<>>}

Constructed(m, b) == {i \in 0 .. (Len(m[b]) - 1) : m[b][i + 1] # Raw}

\* The running state of a call: the heap, what the call did wrong so far, and
\* whether its argument is a reference to an element of the array it is made on.
Heap(m) == [mem |-> m, lost |-> 0, wild |-> FALSE, uaf |-> FALSE, dfree |-> FALSE,
            ref |-> FALSE]

\* operator new fails when the input says so or no region is left.
CanAllocate(m, n, af) == n = 0 \/ (~af /\ FreeRegions(m) # {})

Allocate(h, n) ==
    IF n # 0
    THEN LET r == Min(FreeRegions(h.mem))
         IN  [h |-> [h EXCEPT !.mem[r] = [i \in 1 .. n |-> Raw]], ptr |-> r]
    ELSE [h |-> h, ptr |-> Null]

\* operator delete: releasing nullptr does nothing; objects still constructed in
\* the region are lost with it; a region that is not allocated is a double free.
Deallocate(h, buf) ==
    IF buf = Null THEN h
    ELSE IF Live(h.mem, buf)
         THEN [h EXCEPT !.mem[buf] = <<>>,
                        !.lost = @ + Cardinality(Constructed(h.mem, buf))]
         ELSE [h EXCEPT !.dfree = TRUE]

\* An access to slot i of buf: outside a live region it is undefined.
Touch(h, b, i) ==
    [h EXCEPT !.wild = @ \/ ~Valid(h.mem, b, i),
              !.uaf = @ \/ (b # Null /\ ~Live(h.mem, b))]

Peek(m, b, i) == IF Valid(m, b, i) THEN m[b][i + 1] ELSE Unspec

Put(h, b, i, x) ==
    IF Valid(h.mem, b, i)
    THEN [h EXCEPT !.mem[b][i + 1] = x]
    ELSE Touch(h, b, i)

\* The countdown to the throwing operation after k operations that did not throw.
Tick(t, k) == IF t > k THEN t - k ELSE 0

\* Moves throw only when the type's move is not noexcept.
MoveT(t) == IF nothrow_move THEN 0 ELSE t

\* ------------------------------------------------------- <memory> algorithms
RECURSIVE destroy_n(_, _, _, _)
destroy_n(h, b, i, n) ==
    IF n <= 0 THEN h ELSE destroy_n(Put(h, b, i, Raw), b, i + 1, n - 1)

\* k copy constructions dst[di + j] <- src[si + j]
RECURSIVE CopyRun(_, _, _, _, _, _)
CopyRun(h, src, si, dst, di, k) ==
    IF k <= 0 THEN h
    ELSE CopyRun(Put(Touch(h, src, si), dst, di, Peek(h.mem, src, si)),
                 src, si + 1, dst, di + 1, k - 1)

\* k move constructions (or move assignments): the source object is left moved-from
RECURSIVE MoveRun(_, _, _, _, _, _)
MoveRun(h, src, si, dst, di, k) ==
    IF k <= 0 THEN h
    ELSE MoveRun(Put(Put(h, dst, di, Peek(h.mem, src, si)), src, si, Unspec),
                 src, si + 1, dst, di + 1, k - 1)

\* k move assignments from the back: dst[di + j] <- src[si + j], j = k-1 .. 0
RECURSIVE MoveRunBack(_, _, _, _, _, _)
MoveRunBack(h, src, si, dst, di, k) ==
    IF k <= 0 THEN h
    ELSE MoveRunBack(Put(Put(h, dst, di + k - 1, Peek(h.mem, src, si + k - 1)),
                         src, si + k - 1, Unspec),
                     src, si, dst, di, k - 1)

\* k value-initialisations
RECURSIVE FillRun(_, _, _, _)
FillRun(h, b, i, k) ==
    IF k <= 0 THEN h ELSE FillRun(Put(h, b, i, DefaultT), b, i + 1, k - 1)

\* std::uninitialized_copy_n: when the t-th copy throws, the t-1 copies made are destroyed
uninitialized_copy_n(h, src, si, n, dst, di, t) ==
    IF t >= 1 /\ t <= n
    THEN [h |-> destroy_n(CopyRun(h, src, si, dst, di, t - 1), dst, di, t - 1),
          thrown |-> TRUE]
    ELSE [h |-> CopyRun(h, src, si, dst, di, n), thrown |-> FALSE]

\* std::uninitialized_move_n: the same, but the sources already moved stay moved-from
uninitialized_move_n(h, src, si, n, dst, di, t) ==
    IF t >= 1 /\ t <= n
    THEN [h |-> destroy_n(MoveRun(h, src, si, dst, di, t - 1), dst, di, t - 1),
          thrown |-> TRUE]
    ELSE [h |-> MoveRun(h, src, si, dst, di, n), thrown |-> FALSE]

\* std::uninitialized_value_construct_n
uninitialized_value_construct_n(h, b, i, n, t) ==
    IF t >= 1 /\ t <= n
    THEN [h |-> destroy_n(FillRun(h, b, i, t - 1), b, i, t - 1), thrown |-> TRUE]
    ELSE [h |-> FillRun(h, b, i, n), thrown |-> FALSE]

\* std::copy_n: copy assignments, no clean-up when one throws
copy_n(h, src, si, n, dst, di, t) ==
    IF t >= 1 /\ t <= n
    THEN [h |-> CopyRun(h, src, si, dst, di, t - 1), thrown |-> TRUE]
    ELSE [h |-> CopyRun(h, src, si, dst, di, n), thrown |-> FALSE]

\* std::move(first, last, d_first): move assignments front to back
move_n(h, src, si, n, dst, di, t) ==
    IF t >= 1 /\ t <= n
    THEN [h |-> MoveRun(h, src, si, dst, di, t - 1), thrown |-> TRUE]
    ELSE [h |-> MoveRun(h, src, si, dst, di, n), thrown |-> FALSE]

\* std::move_backward(first, last, d_last): move assignments back to front
move_backward_n(h, src, si, n, dst, di, t) ==
    IF t >= 1 /\ t <= n
    THEN [h |-> MoveRunBack(h, src, si + n - (t - 1), dst, di + n - (t - 1), t - 1),
          thrown |-> TRUE]
    ELSE [h |-> MoveRunBack(h, src, si, dst, di, n), thrown |-> FALSE]

\* ---------------------------------------------------------------- RawMemory
\* RawMemory() = default
RawMemoryDefault == [buffer_ |-> Null, capacity_ |-> 0]

\* explicit RawMemory(size_t capacity)
RawMemoryCtor(h, capacity) ==
    LET a == Allocate(h, capacity)
    IN  [h |-> a.h, rm |-> [buffer_ |-> a.ptr, capacity_ |-> capacity]]

\* Mutant: the pointer is copied and the source keeps it.
RawMemoryMoveAssignCopy(this, rhs) ==
    [this |-> [buffer_ |-> rhs.buffer_, capacity_ |-> rhs.capacity_], rhs |-> rhs]

\* RawMemory& operator=(RawMemory&& rhs) noexcept
RawMemoryMoveAssign(this, rhs) ==
    [this |-> [buffer_ |-> rhs.buffer_, capacity_ |-> rhs.capacity_],
     rhs  |-> [rhs EXCEPT !.buffer_ = Null]]

\* RawMemory(RawMemory&& other) noexcept: *this = std::move(other) on a
\* default-initialised *this
RawMemoryMoveCtor(other) == RawMemoryMoveAssign(RawMemoryDefault, other)

\* ~RawMemory()
RawMemoryDtor(h, rm) == Deallocate(h, rm.buffer_)

\* void RawMemory::Swap(RawMemory& other) noexcept
RawMemorySwap(this, other) == [this |-> other, other |-> this]

\* ---------------------------------------------------------------- Vector
\* A Vector object: [data_ |-> RawMemory, size_ |-> n]
VectorDefault == [data_ |-> RawMemoryDefault, size_ |-> 0]

Capacity(this) == this.data_.capacity_

\* Mutant: growth by one slot.
NewCapacityPlusOne(this) == Capacity(this) + 1

\* Mutant: the empty array is not given one slot.
NewCapacityNoFloor(this) == Capacity(this) * 2

\* size_t new_capacity = size_ == 0 ? 1 : data_.Capacity() * 2;
NewCapacity(this) == IF this.size_ = 0 THEN 1 ELSE Capacity(this) * 2

\* Mutant: the elements are always moved, also when the move may throw and T is copyable.
ReallocateDataMoves(h, this, new_data, t) ==
    LET r == uninitialized_move_n(h, this.data_.buffer_, 0, this.size_,
                                  new_data.buffer_, 0, MoveT(t))
    IN  IF r.thrown
        THEN [h |-> r.h, this |-> this, new_data |-> new_data, thrown |-> TRUE]
        ELSE LET s == RawMemorySwap(this.data_, new_data)
             IN  [h |-> destroy_n(r.h, this.data_.buffer_, 0, this.size_),
                  this |-> [this EXCEPT !.data_ = s.this],
                  new_data |-> s.other, thrown |-> FALSE]

\* void ReallocateData(RawMemory<T>& new_data)
ReallocateData(h, this, new_data, t) ==
    LET r == IF nothrow_move \/ ~copyable
             THEN uninitialized_move_n(h, this.data_.buffer_, 0, this.size_,
                                       new_data.buffer_, 0, MoveT(t))
             ELSE uninitialized_copy_n(h, this.data_.buffer_, 0, this.size_,
                                       new_data.buffer_, 0, t)
    IN  IF r.thrown
        THEN [h |-> r.h, this |-> this, new_data |-> new_data, thrown |-> TRUE]
        ELSE LET s == RawMemorySwap(this.data_, new_data)
             IN  [h |-> destroy_n(r.h, this.data_.buffer_, 0, this.size_),
                  this |-> [this EXCEPT !.data_ = s.this],
                  new_data |-> s.other, thrown |-> FALSE]

\* Mutant: the elements are always moved.
ReallocatePartialMoves(h, from, fi, count, to, ti, t) ==
    uninitialized_move_n(h, from, fi, count, to, ti, MoveT(t))

\* static void ReallocatePartial(T* from, size_t count, T* to)
ReallocatePartial(h, from, fi, count, to, ti, t) ==
    IF nothrow_move \/ ~copyable
    THEN uninitialized_move_n(h, from, fi, count, to, ti, MoveT(t))
    ELSE uninitialized_copy_n(h, from, fi, count, to, ti, t)

\* The argument of PushBack / Insert (const T& value): the value x itself, or for
\* x = ElemRef(i) a reference to element i of the array the call is made on.
RefBase == 10

ElemRef(i) == RefBase + i

\* What T(args...) constructs when it reads the argument x with the heap being h;
\* b is begin() at the time of the call, which a reference to an element points into.
ArgValue(h, b, x) == IF x >= RefBase THEN Peek(h.mem, b, x - RefBase) ELSE x

\* Mutant: the elements are relocated and the old storage is released before the
\* new element is constructed from the argument.
EmplaceBackOpRelocateFirst(h, this, x, af, t) ==
    IF this.size_ < Capacity(this)
    THEN IF t = 1
         THEN [h |-> h, this |-> this, out |-> "throw"]
         ELSE [h |-> Put(h, this.data_.buffer_, this.size_,
                         ArgValue(h, this.data_.buffer_, x)),
               this |-> [this EXCEPT !.size_ = @ + 1], out |-> "ok",
               ret |-> this.size_]
    ELSE IF ~CanAllocate(h.mem, NewCapacity(this), af)
         THEN [h |-> h, this |-> this, out |-> "bad_alloc"]
         ELSE LET a == RawMemoryCtor(h, NewCapacity(this))
                  r == ReallocateData(a.h, this, a.rm, Tick(t, 1))
                  d == RawMemoryDtor(r.h, r.new_data)
              IN  IF t = 1 \/ r.thrown
                  THEN [h |-> d, this |-> r.this, out |-> "throw"]
                  ELSE [h |-> Put(d, r.this.data_.buffer_, this.size_,
                                  ArgValue(d, this.data_.buffer_, x)),
                        this |-> [r.this EXCEPT !.size_ = @ + 1], out |-> "ok",
                        ret |-> this.size_]

\* T& EmplaceBack(Args&&... args): T(args...) constructs the value of the argument x;
\* ret is the index of the element the returned reference data_[size_ - 1] denotes
EmplaceBackOp(h, this, x, af, t) ==
    IF this.size_ < Capacity(this)
    THEN IF t = 1
         THEN [h |-> h, this |-> this, out |-> "throw"]
         ELSE [h |-> Put(h, this.data_.buffer_, this.size_,
                         ArgValue(h, this.data_.buffer_, x)),
               this |-> [this EXCEPT !.size_ = @ + 1], out |-> "ok",
               ret |-> this.size_]
    ELSE IF ~CanAllocate(h.mem, NewCapacity(this), af)
         THEN [h |-> h, this |-> this, out |-> "bad_alloc"]
         ELSE LET a == RawMemoryCtor(h, NewCapacity(this))
              IN  IF t = 1
                  THEN [h |-> RawMemoryDtor(a.h, a.rm), this |-> this, out |-> "throw"]
                  ELSE LET r == ReallocateData(Put(a.h, a.rm.buffer_, this.size_,
                                                   ArgValue(a.h, this.data_.buffer_, x)),
                                               this, a.rm, Tick(t, 1))
                       IN  IF r.thrown
                           THEN [h |-> RawMemoryDtor(r.h, r.new_data), this |-> r.this,
                                 out |-> "throw"]
                           ELSE [h |-> RawMemoryDtor(r.h, r.new_data),
                                 this |-> [r.this EXCEPT !.size_ = @ + 1], out |-> "ok",
                                 ret |-> this.size_]

\* The fallible operations a relocation of this's elements performs.
RelocOps(this) == IF nothrow_move THEN 0 ELSE this.size_

\* iterator Emplace(const_iterator pos, Args&&... args), pos = begin() + p;
\* ret is the index i of the returned iterator begin() + i
EmplaceOp(h, this, p, x, af, t) ==
    LET b == this.data_.buffer_
        n == this.size_
    IN
    IF p = n THEN EmplaceBackOp(h, this, x, af, t)
    ELSE IF n < Capacity(this)
    THEN \* T copy(args); new (end()) T(move(*(end() - 1))); move_backward; data_[p] = move(copy)
         LET copy == ArgValue(h, b, x)
             tm == MoveT(Tick(t, 1))
             h1 == MoveRun(h, b, n - 1, b, n, 1)
             mb == move_backward_n(h1, b, p, n - 1 - p, b, p + 1, Tick(tm, 1))
         IN  IF t = 1 \/ tm = 1
             THEN [h |-> h, this |-> this, out |-> "throw"]
             ELSE IF mb.thrown \/ Tick(tm, n - p) = 1
             THEN [h |-> mb.h, this |-> this, out |-> "throw"]
             ELSE [h |-> Put(mb.h, b, p, copy), this |-> [this EXCEPT !.size_ = @ + 1],
                   out |-> "ok", ret |-> p]
    ELSE IF ~CanAllocate(h.mem, NewCapacity(this), af)
    THEN [h |-> h, this |-> this, out |-> "bad_alloc"]
    ELSE LET a  == RawMemoryCtor(h, NewCapacity(this))
             nb == a.rm.buffer_
             r1 == ReallocatePartial(Put(a.h, nb, p, ArgValue(a.h, b, x)), b, 0, p, nb, 0,
                                     Tick(t, 1))
             r2 == ReallocatePartial(r1.h, b, p, n - p, nb, p + 1, Tick(t, 1 + p))
             s  == RawMemorySwap(this.data_, a.rm)
         IN  IF t = 1
             THEN [h |-> RawMemoryDtor(a.h, a.rm), this |-> this, out |-> "throw"]
             ELSE IF r1.thrown
             THEN [h |-> RawMemoryDtor(Put(r1.h, nb, p, Raw), a.rm), this |-> this,
                   out |-> "throw"]
             ELSE IF r2.thrown
             THEN [h |-> RawMemoryDtor(destroy_n(r2.h, nb, 0, p + 1), a.rm), this |-> this,
                   out |-> "throw"]
             ELSE [h |-> RawMemoryDtor(destroy_n(r2.h, b, 0, n), s.other),
                   this |-> [data_ |-> s.this, size_ |-> n + 1], out |-> "ok", ret |-> p]

\* Mutant: the tail is not shifted, so the last element goes instead of the one at pos.
EraseOpNoShift(h, this, p, t) ==
    [h |-> Put(h, this.data_.buffer_, this.size_ - 1, Raw),
     this |-> [this EXCEPT !.size_ = @ - 1], out |-> "ok", ret |-> p]

\* iterator Erase(const_iterator pos), pos = begin() + p; ret as for Emplace
EraseOp(h, this, p, t) ==
    LET b  == this.data_.buffer_
        n  == this.size_
        mv == move_n(h, b, p + 1, n - 1 - p, b, p, MoveT(t))
    IN  IF mv.thrown
        THEN [h |-> mv.h, this |-> this, out |-> "throw"]
        ELSE [h |-> Put(mv.h, b, n - 1, Raw), this |-> [this EXCEPT !.size_ = @ - 1],
              out |-> "ok", ret |-> p]

\* void PopBack() noexcept
PopBackOp(h, this) ==
    [h |-> Put(h, this.data_.buffer_, this.size_ - 1, Raw),
     this |-> [this EXCEPT !.size_ = @ - 1], out |-> "ok"]

\* Mutant: Reserve grows to at least twice the capacity.
ReserveOpDoubling(h, this, new_capacity, af, t) ==
    LET nc == IF new_capacity > 2 * Capacity(this) THEN new_capacity ELSE 2 * Capacity(this)
    IN
    IF new_capacity <= Capacity(this)
    THEN [h |-> h, this |-> this, out |-> "ok"]
    ELSE IF ~CanAllocate(h.mem, nc, af)
    THEN [h |-> h, this |-> this, out |-> "bad_alloc"]
    ELSE LET a == RawMemoryCtor(h, nc)
             r == ReallocateData(a.h, this, a.rm, t)
         IN  [h |-> RawMemoryDtor(r.h, r.new_data), this |-> r.this,
              out |-> IF r.thrown THEN "throw" ELSE "ok"]

\* void Reserve(size_t new_capacity)
ReserveOp(h, this, new_capacity, af, t) ==
    IF new_capacity <= Capacity(this)
    THEN [h |-> h, this |-> this, out |-> "ok"]
    ELSE IF ~CanAllocate(h.mem, new_capacity, af)
    THEN [h |-> h, this |-> this, out |-> "bad_alloc"]
    ELSE LET a == RawMemoryCtor(h, new_capacity)
             r == ReallocateData(a.h, this, a.rm, t)
         IN  [h |-> RawMemoryDtor(r.h, r.new_data), this |-> r.this,
              out |-> IF r.thrown THEN "throw" ELSE "ok"]

\* void Resize(size_t new_size)
ResizeOp(h, this, new_size, af, t) ==
    IF new_size = this.size_
    THEN [h |-> h, this |-> this, out |-> "ok"]
    ELSE IF new_size < this.size_
    THEN [h |-> destroy_n(h, this.data_.buffer_, new_size, this.size_ - new_size),
          this |-> [this EXCEPT !.size_ = new_size], out |-> "ok"]
    ELSE LET r == ReserveOp(h, this, new_size, af, t)
             used == IF new_size > Capacity(this) THEN RelocOps(this) ELSE 0
             f == uninitialized_value_construct_n(r.h, r.this.data_.buffer_, this.size_,
                                                  new_size - this.size_, Tick(t, used))
         IN  IF r.out # "ok" THEN r
             ELSE IF f.thrown THEN [h |-> f.h, this |-> r.this, out |-> "throw"]
             ELSE [h |-> f.h, this |-> [r.this EXCEPT !.size_ = new_size], out |-> "ok"]

\* explicit Vector(size_t size)
SizedCtorOp(h, size, af, t) ==
    IF ~CanAllocate(h.mem, size, af)
    THEN [h |-> h, this |-> VectorDefault, out |-> "bad_alloc"]
    ELSE LET a == RawMemoryCtor(h, size)
             f == uninitialized_value_construct_n(a.h, a.rm.buffer_, 0, size, t)
         IN  IF f.thrown
             THEN [h |-> RawMemoryDtor(f.h, a.rm), this |-> VectorDefault, out |-> "throw"]
             ELSE [h |-> f.h, this |-> [data_ |-> a.rm, size_ |-> size], out |-> "ok"]

\* Mutant: the copies made before the one that throws are not destroyed.
CopyCtorOpNoCleanup(h, other, af, t) ==
    IF ~CanAllocate(h.mem, other.size_, af)
    THEN [h |-> h, this |-> VectorDefault, out |-> "bad_alloc"]
    ELSE LET a == RawMemoryCtor(h, other.size_)
             c == copy_n(a.h, other.data_.buffer_, 0, other.size_, a.rm.buffer_, 0, t)
         IN  IF c.thrown
             THEN [h |-> RawMemoryDtor(c.h, a.rm), this |-> VectorDefault, out |-> "throw"]
             ELSE [h |-> c.h, this |-> [data_ |-> a.rm, size_ |-> other.size_],
                   out |-> "ok"]

\* Vector(const Vector& other)
CopyCtorOp(h, other, af, t) ==
    IF ~CanAllocate(h.mem, other.size_, af)
    THEN [h |-> h, this |-> VectorDefault, out |-> "bad_alloc"]
    ELSE LET a == RawMemoryCtor(h, other.size_)
             c == uninitialized_copy_n(a.h, other.data_.buffer_, 0, other.size_,
                                       a.rm.buffer_, 0, t)
         IN  IF c.thrown
             THEN [h |-> RawMemoryDtor(c.h, a.rm), this |-> VectorDefault, out |-> "throw"]
             ELSE [h |-> c.h, this |-> [data_ |-> a.rm, size_ |-> other.size_],
                   out |-> "ok"]

\* Vector(Vector&& other) noexcept
MoveCtorOp(other) ==
    LET m == RawMemoryMoveCtor(other.data_)
    IN  [this  |-> [data_ |-> m.this, size_ |-> other.size_],
         other |-> [data_ |-> m.rhs, size_ |-> 0]]

\* ~Vector(), then ~RawMemory() of the member
VectorDtor(h, this) ==
    RawMemoryDtor(destroy_n(h, this.data_.buffer_, 0, this.size_), this.data_)

\* Mutant: the storage is exchanged and the sizes are not.
SwapOpKeepSizes(this, other) ==
    LET s == RawMemorySwap(this.data_, other.data_)
    IN  [this  |-> [data_ |-> s.this, size_ |-> this.size_],
         other |-> [data_ |-> s.other, size_ |-> other.size_]]

\* void Swap(Vector& other) noexcept
SwapOp(this, other) ==
    LET s == RawMemorySwap(this.data_, other.data_)
    IN  [this  |-> [data_ |-> s.this, size_ |-> other.size_],
         other |-> [data_ |-> s.other, size_ |-> this.size_]]

\* Mutant: *this takes the state of rhs and rhs is left empty.
MoveAssignOpSteal(this, rhs) ==
    IF this = rhs THEN [this |-> this, other |-> rhs]
    ELSE [this |-> rhs, other |-> VectorDefault]

\* Vector& operator=(Vector&& rhs) noexcept
MoveAssignOp(this, rhs) == SwapOp(this, rhs)

\* Mutant: the elements of *this are destroyed before the copy of rhs is built.
CopyAssignOpClearFirst(h, this, rhs, same, af, t) ==
    LET h0 == destroy_n(h, this.data_.buffer_, 0, this.size_)
        t0 == [this EXCEPT !.size_ = 0]
        c  == CopyCtorOp(h0, rhs, af, t)
        s  == SwapOp(t0, c.this)
    IN  IF same THEN [h |-> h, this |-> this, out |-> "ok"]
        ELSE IF c.out # "ok" THEN [h |-> c.h, this |-> t0, out |-> c.out]
        ELSE [h |-> VectorDtor(c.h, s.other), this |-> s.this, out |-> "ok"]

\* Vector& operator=(const Vector& rhs); same: this == &rhs
CopyAssignOp(h, this, rhs, same, af, t) ==
    LET b  == this.data_.buffer_
        rb == rhs.data_.buffer_
    IN
    IF same THEN [h |-> h, this |-> this, out |-> "ok"]
    ELSE IF rhs.size_ > Capacity(this)
    THEN LET c == CopyCtorOp(h, rhs, af, t)
             s == SwapOp(this, c.this)
         IN  IF c.out # "ok" THEN [h |-> c.h, this |-> this, out |-> c.out]
             ELSE [h |-> VectorDtor(c.h, s.other), this |-> s.this, out |-> "ok"]
    ELSE IF rhs.size_ < this.size_
    THEN LET cp == copy_n(h, rb, 0, rhs.size_, b, 0, t)
         IN  IF cp.thrown THEN [h |-> cp.h, this |-> this, out |-> "throw"]
             ELSE [h |-> destroy_n(cp.h, b, rhs.size_, this.size_ - rhs.size_),
                   this |-> [this EXCEPT !.size_ = rhs.size_], out |-> "ok"]
    ELSE LET cp == copy_n(h, rb, 0, this.size_, b, 0, t)
             uc == uninitialized_copy_n(cp.h, rb, this.size_, rhs.size_ - this.size_,
                                        b, this.size_, Tick(t, this.size_))
         IN  IF cp.thrown THEN [h |-> cp.h, this |-> this, out |-> "throw"]
             ELSE IF uc.thrown THEN [h |-> uc.h, this |-> this, out |-> "throw"]
             ELSE [h |-> uc.h, this |-> [this EXCEPT !.size_ = rhs.size_], out |-> "ok"]

\* ---------------------------------------------------------------- actions
\* No call is in progress: the caller has taken the result of the last one.
NoCall == [op |-> "none", v |-> 1, out |-> "ok", size0 |-> 0, cap0 |-> 0,
           lost |-> 0, wild |-> FALSE, uaf |-> FALSE, dfree |-> FALSE, ref |-> FALSE]

Running == res = NoCall

\* What the caller sees of a call on v: the operation, how it ended (ok, throw,
\* bad_alloc, or crash), Size() and Capacity() of v before it, the objects lost
\* with released storage, and the undefined accesses and releases it made.
Result(op, v, out, h) ==
    [op |-> op, v |-> v, out |-> out, size0 |-> size_[v], cap0 |-> data_[v].capacity_,
     lost |-> h.lost, wild |-> h.wild, uaf |-> h.uaf, dfree |-> h.dfree, ref |-> h.ref]

This(v) == [data_ |-> data_[v], size_ |-> size_[v]]

Upd(f, v, a) == [f EXCEPT ![v] = a]

Upd2(f, v, a, w, b) == [u \in Vecs |-> IF u = v THEN a ELSE IF u = w THEN b ELSE f[u]]

\* operator new may return any free address: the regions are renumbered in the
\* order in which the vectors refer to them, so that states differing only in
\* the addresses are one state.
Range(q) == {q[i] : i \in DOMAIN q}

RECURSIVE Sorted(_)
Sorted(S) == IF S = {} THEN <<>> ELSE <<Min(S)>> \o Sorted(S \ {Min(S)})

Refs(D) ==
    LET b1 == D[1].buffer_
        b2 == D[2].buffer_
    IN  (IF b1 \in Regions THEN <<b1>> ELSE <<>>)
        \o (IF b2 \in Regions /\ b2 # b1 THEN <<b2>> ELSE <<>>)

Order(D) == Refs(D) \o Sorted(Regions \ Range(Refs(D)))

NewId(o, b) == IF b \in Regions THEN CHOOSE i \in Regions : o[i] = b ELSE b

CanonMem(m, o) == [i \in Regions |-> m[o[i]]]

CanonData(D, o) == [v \in Vecs |-> [D[v] EXCEPT !.buffer_ = NewId(o, @)]]

\* The call ends.  An access outside owned storage or a double release is undefined:
\* the program either stops there (a trap) or the call's effects stand.
Commit(op, v, out, h, A, D, S, AP) ==
    /\ Running
    /\ \E trap \in (IF h.wild \/ h.dfree THEN BOOLEAN ELSE {FALSE}) :
        IF trap
        THEN /\ res' = Result(op, v, "crash", h)
             /\ UNCHANGED <<alive, data_, size_, mem, appends>>
        ELSE LET o == Order(D)
             IN  /\ res' = Result(op, v, out, h)
                 /\ mem' = CanonMem(h.mem, o)
                 /\ alive' = A
                 /\ data_' = CanonData(D, o)
                 /\ size_' = S
                 /\ appends' = AP
    /\ UNCHANGED <<nothrow_move, copyable>>

\* A call on v alone that leaves v constructed.
Call(op, v, r) ==
    Commit(op, v, r.out, r.h, alive, Upd(data_, v, r.this.data_),
           Upd(size_, v, r.this.size_), Upd(appends, v, -1))

\* Vector() = default
DefaultConstruct(v) ==
    /\ ~alive[v]
    /\ Commit("Vector", v, "ok", Heap(mem), Upd(alive, v, TRUE),
              Upd(data_, v, VectorDefault.data_), Upd(size_, v, VectorDefault.size_),
              Upd(appends, v, -1))

\* explicit Vector(size_t size)
SizedConstruct(v, n, af, t) ==
    /\ ~alive[v]
    /\ LET r == SizedCtorOp(Heap(mem), n, af, t)
       IN  Commit("VectorN", v, r.out, r.h, Upd(alive, v, r.out = "ok"),
                  Upd(data_, v, IF r.out = "ok" THEN r.this.data_ ELSE data_[v]),
                  Upd(size_, v, IF r.out = "ok" THEN r.this.size_ ELSE size_[v]),
                  Upd(appends, v, -1))

\* Vector(const Vector& other): v is constructed as a copy of w
CopyConstruct(v, w, af, t) ==
    /\ copyable /\ ~alive[v] /\ alive[w]
    /\ LET r == CopyCtorOp(Heap(mem), This(w), af, t)
       IN  Commit("VectorCopy", v, r.out, r.h, Upd(alive, v, r.out = "ok"),
                  Upd(data_, v, IF r.out = "ok" THEN r.this.data_ ELSE data_[v]),
                  Upd(size_, v, IF r.out = "ok" THEN r.this.size_ ELSE size_[v]),
                  Upd(appends, v, -1))

\* Vector(Vector&& other) noexcept: v is constructed from w
MoveConstruct(v, w) ==
    /\ ~alive[v] /\ alive[w]
    /\ LET r == MoveCtorOp(This(w))
       IN  Commit("VectorMove", v, "ok", Heap(mem), Upd(alive, v, TRUE),
                  Upd2(data_, v, r.this.data_, w, r.other.data_),
                  Upd2(size_, v, r.this.size_, w, r.other.size_),
                  Upd2(appends, v, -1, w, -1))

\* Vector& operator=(const Vector& rhs): v = w
CopyAssign(v, w, af, t) ==
    /\ copyable /\ alive[v] /\ alive[w]
    /\ Call("CopyAssign", v, CopyAssignOp(Heap(mem), This(v), This(w), v = w, af, t))

\* Vector& operator=(Vector&& rhs) noexcept: v = std::move(w)
MoveAssign(v, w) ==
    /\ alive[v] /\ alive[w]
    /\ LET r == MoveAssignOp(This(v), This(w))
       IN  Commit("MoveAssign", v, "ok", Heap(mem), alive,
                  Upd2(data_, v, r.this.data_, w, r.other.data_),
                  Upd2(size_, v, r.this.size_, w, r.other.size_),
                  Upd2(appends, v, -1, w, -1))

\* void Swap(Vector& other) noexcept: v.Swap(w)
Swap(v, w) ==
    /\ alive[v] /\ alive[w]
    /\ LET r == SwapOp(This(v), This(w))
       IN  Commit("Swap", v, "ok", Heap(mem), alive,
                  Upd2(data_, v, r.this.data_, w, r.other.data_),
                  Upd2(size_, v, r.this.size_, w, r.other.size_),
                  Upd2(appends, v, -1, w, -1))

\* ~Vector()
Destroy(v) ==
    /\ alive[v]
    /\ Commit("Dtor", v, "ok", VectorDtor(Heap(mem), This(v)), Upd(alive, v, FALSE),
              Upd(data_, v, RawMemoryDefault), Upd(size_, v, 0), Upd(appends, v, -1))

\* void PopBack() noexcept, called with size_ > 0
PopBack(v) ==
    /\ alive[v] /\ size_[v] > 0
    /\ Call("PopBack", v, PopBackOp(Heap(mem), This(v)))

\* PushBack / EmplaceBack
EmplaceBack(v, x, af, t, bound) ==
    /\ alive[v]
    /\ size_[v] < Capacity(This(v)) \/ NewCapacity(This(v)) <= bound
    /\ LET r == EmplaceBackOp([Heap(mem) EXCEPT !.ref = x >= RefBase], This(v), x, af, t)
       IN  Commit("EmplaceBack", v, r.out, r.h, alive, Upd(data_, v, r.this.data_),
                  Upd(size_, v, r.this.size_),
                  Upd(appends, v, IF r.out # "ok" \/ appends[v] < 0 THEN appends[v]
                                  ELSE appends[v] + 1))

\* Insert / Emplace at begin() + p, p < size_ (at end() it is EmplaceBack)
Emplace(v, p, x, af, t, bound) ==
    /\ alive[v] /\ p < size_[v]
    /\ size_[v] < Capacity(This(v)) \/ NewCapacity(This(v)) <= bound
    /\ Call("Emplace", v,
            EmplaceOp([Heap(mem) EXCEPT !.ref = x >= RefBase], This(v), p, x, af, t))

\* Erase at begin() + p, p < size_
Erase(v, p, t) ==
    /\ alive[v] /\ p < size_[v]
    /\ Call("Erase", v, EraseOp(Heap(mem), This(v), p, t))

Reserve(v, n, af, t) ==
    /\ alive[v]
    /\ Call("Reserve", v, ReserveOp(Heap(mem), This(v), n, af, t))

Resize(v, n, af, t) ==
    /\ alive[v]
    /\ Call("Resize", v, ResizeOp(Heap(mem), This(v), n, af, t))

\* v[i] = x through T& operator[](size_t index), index < size_
SetAt(v, i, x) ==
    /\ alive[v] /\ i < size_[v]
    /\ Call("SetAt", v, [h |-> Put(Heap(mem), data_[v].buffer_, i, x), this |-> This(v),
                         out |-> "ok"])

\* The caller takes the result of the call (its return or its exception).  After
\* undefined behaviour nothing more is modelled.
Return ==
    /\ res # NoCall /\ res.out # "crash" /\ ~res.wild /\ ~res.dfree
    /\ res' = NoCall
    /\ UNCHANGED <<alive, data_, size_, mem, appends, nothrow_move, copyable>>

\* The element types, <<nothrow_move, copyable>>: copyable with a noexcept move,
\* copyable with a throwing move, and move-only with a throwing move.
Traits == {<<TRUE, TRUE>>, <<FALSE, TRUE>>, <<FALSE, FALSE>>}

CopyableTraits == {tr \in Traits : tr[2]}

\* No vector is constructed yet; T is one of the types TR.
InitWith(TR) ==
    /\ alive = [v \in Vecs |-> FALSE]
    /\ data_ = [v \in Vecs |-> RawMemoryDefault]
    /\ size_ = [v \in Vecs |-> 0]
    /\ mem = [r \in Regions |-> <<>>]
    /\ res = NoCall
    /\ appends = [v \in Vecs |-> -1]
    /\ \E tr \in TR : nothrow_move = tr[1] /\ copyable = tr[2]

Init == InitWith(CopyableTraits)

InitOne == InitWith(Traits)

\* Whether operator new fails is an input only of the calls that allocate.
Fail(allocates) == IF allocates THEN BOOLEAN ELSE {FALSE}

Full(v) == size_[v] >= data_[v].capacity_

\* The arguments of an append or insert on v: a value, or (T copyable) a reference
\* to one of v's elements.
Args(v) ==
    Values \cup (IF copyable THEN {ElemRef(i) : i \in 0 .. (size_[v] - 1)} ELSE {})

Next ==
    \/ Running /\ \E v \in Vecs : DefaultConstruct(v)
    \/ Running /\ \E v \in Vecs : \E n \in 0 .. MaxCapPair : \E af \in Fail(n > 0), t \in 0 .. n :
          SizedConstruct(v, n, af, t)
    \/ Running /\ \E v, w \in Vecs : \E af \in Fail(size_[w] > 0), t \in 0 .. size_[w] :
          CopyConstruct(v, w, af, t)
    \/ Running /\ \E v, w \in Vecs : MoveConstruct(v, w)
    \/ Running /\ \E v, w \in Vecs : \E af \in Fail(size_[w] > data_[v].capacity_), t \in 0 .. size_[w] :
          CopyAssign(v, w, af, t)
    \/ Running /\ \E v, w \in Vecs : MoveAssign(v, w)
    \/ Running /\ \E v, w \in Vecs : Swap(v, w)
    \/ Running /\ \E v \in Vecs : Destroy(v)
    \/ Running /\ \E v \in Vecs : PopBack(v)
    \/ Running /\ \E v \in Vecs, x \in Values : \E af \in Fail(Full(v)), t \in 0 .. (size_[v] + 1) :
          EmplaceBack(v, x, af, t, MaxCapPair)
    \/ Running /\ \E v \in Vecs, x \in Values : \E p \in 0 .. (size_[v] - 1) :
          \E af \in Fail(Full(v)), t \in 0 .. (size_[v] + 2) :
             Emplace(v, p, x, af, t, MaxCapPair)
    \/ Running /\ \E v \in Vecs : \E p \in 0 .. (size_[v] - 1) : \E t \in 0 .. (size_[v] - 1 - p) :
          Erase(v, p, t)
    \/ Running /\ \E v \in Vecs : \E n \in 0 .. MaxCapPair :
          \E af \in Fail(n > data_[v].capacity_), t \in 0 .. size_[v] : Reserve(v, n, af, t)
    \/ Running /\ \E v \in Vecs : \E n \in 0 .. MaxCapPair :
          \E af \in Fail(n > data_[v].capacity_), t \in 0 .. n : Resize(v, n, af, t)
    \/ Running /\ \E v \in Vecs, x \in Values : \E i \in 0 .. (size_[v] - 1) : SetAt(v, i, x)
    \/ Return

\* Two vectors of a copyable T, every operation.
Spec == Init /\ [][Next]_vars

\* One vector of any T, to a larger capacity.
NextOne ==
    \/ Running /\ DefaultConstruct(1)
    \/ Running /\ \E n \in 0 .. MaxCap : \E af \in Fail(n > 0), t \in 0 .. n :
          SizedConstruct(1, n, af, t)
    \/ Running /\ Destroy(1)
    \/ Running /\ PopBack(1)
    \/ Running /\ \E x \in Args(1) : \E af \in Fail(Full(1)), t \in 0 .. (size_[1] + 1) :
          EmplaceBack(1, x, af, t, MaxCap)
    \/ Running /\ \E x \in Args(1) : \E p \in 0 .. (size_[1] - 1) :
          \E af \in Fail(Full(1)), t \in 0 .. (size_[1] + 2) : Emplace(1, p, x, af, t, MaxCap)
    \/ Running /\ \E p \in 0 .. (size_[1] - 1) : \E t \in 0 .. (size_[1] - 1 - p) : Erase(1, p, t)
    \/ Running /\ \E n \in 0 .. MaxCap : \E af \in Fail(n > data_[1].capacity_), t \in 0 .. size_[1] :
          Reserve(1, n, af, t)
    \/ Running /\ \E n \in 0 .. MaxCap : \E af \in Fail(n > data_[1].capacity_), t \in 0 .. n :
          Resize(1, n, af, t)
    \/ Running /\ \E x \in Values : \E i \in 0 .. (size_[1] - 1) : SetAt(1, i, x)
    \/ Return

SpecOne == InitOne /\ [][NextOne]_vars

\* Appends only, to vector 1, from its default construction.
InitAppend ==
    /\ alive = [v \in Vecs |-> v = 1]
    /\ data_ = [v \in Vecs |-> VectorDefault.data_]
    /\ size_ = [v \in Vecs |-> VectorDefault.size_]
    /\ mem = [r \in Regions |-> <<>>]
    /\ res = NoCall
    /\ appends = [v \in Vecs |-> IF v = 1 THEN 0 ELSE -1]
    /\ \E tr \in Traits : nothrow_move = tr[1] /\ copyable = tr[2]

NextAppend ==
    \/ Return
    \/ Running /\ \E x \in Values : \E af \in Fail(Full(1)), t \in 0 .. (size_[1] + 1) :
          EmplaceBack(1, x, af, t, MaxAppendCap)

SpecAppend == InitAppend /\ [][NextAppend]_vars

\* ---------------------------------------------------------------- observations
Cap(v) == data_[v].capacity_

\* The elements of v as operator[] reads them.
Elems(v) == [i \in 1 .. size_[v] |-> Peek(mem, data_[v].buffer_, i - 1)]

\* The slots of the region v's buffer_ points to.
OwnedSlots(v) == IF Live(mem, data_[v].buffer_) THEN Len(mem[data_[v].buffer_]) ELSE 0

\* The slots of v's storage that hold a constructed object.
ConstructedIn(v) ==
    IF data_[v].buffer_ \in Regions THEN Constructed(mem, data_[v].buffer_) ELSE {}

Max(a, b) == IF a >= b THEN a ELSE b

\* The capacity that doubling from 1 reaches for k elements: 0, 1, 2, 4, 4, 8, ...
RECURSIVE Doubled(_)
Doubled(k) == IF k <= 1 THEN k ELSE 2 * Doubled((k + 1) \div 2)

\* ---------------------------------------------------------------- claims

\* C1 (as amended): after the k-th of k consecutive successful appends to a
\* default-constructed array, Size() = k and Capacity() is the least power of
\* two that is at least k: 1, 2, 4, 4, 8, 8, 8, 8.
C1_AppendCapacities ==
    \A v \in Vecs :
        (alive[v] /\ appends[v] >= 0) =>
            (size_[v] = appends[v] /\ Cap(v) = Doubled(appends[v]))

C1_Witness == alive[1] /\ appends[1] = 8 /\ size_[1] = 8 /\ Cap(1) = 8

\* C1 as stated: the capacities after appends 1, 2, 3, ... are 1, 2, 2, 4, 4, 4, 4, 8.
SpecCaps == <<1, 2, 2, 4, 4, 4, 4, 8>>

C1_Original ==
    \A v \in Vecs :
        (alive[v] /\ appends[v] \in 1 .. Len(SpecCaps)) =>
            (size_[v] = appends[v] /\ Cap(v) = SpecCaps[appends[v]])

\* C2: an append or insert that returns, made with Size() = Capacity(), ends with
\* Capacity() = max(1, 2 * old capacity); made with Size() < Capacity(), it leaves
\* Capacity() as it was.
C2_GrowthPolicy ==
    (res.op \in {"EmplaceBack", "Emplace"} /\ res.out = "ok") =>
        /\ res.size0 = res.cap0 => Cap(res.v) = Max(1, 2 * res.cap0)
        /\ res.size0 < res.cap0 => Cap(res.v) = res.cap0

C2_Witness ==
    /\ res.op = "Emplace" /\ res.out = "ok"
    /\ res.size0 = 2 /\ res.cap0 = 2 /\ Cap(res.v) = 4

\* C3: for a copyable T whose move may throw, when a copy of the relocation of an
\* append to a full array throws, the append throws and Size(), Capacity(), the
\* storage and every element are as before the call.
C3_AppendCopyThrowKeepsArray ==
    [][\A x \in Values : \A t \in 2 .. (MaxCap + 1) :
          (/\ res'.op = "EmplaceBack"
           /\ copyable /\ ~nothrow_move
           /\ size_[1] = Cap(1) /\ t <= size_[1] + 1
           /\ EmplaceBack(1, x, FALSE, t, MaxCap))
          => (/\ res'.out = "throw"
              /\ size_' = size_ /\ data_' = data_
              /\ Elems(1)' = Elems(1))]_vars

C3_Witness ==
    /\ res.op = "EmplaceBack" /\ res.out = "throw"
    /\ copyable /\ ~nothrow_move
    /\ res.size0 = res.cap0 /\ res.size0 >= 2
    /\ res.lost = 1
    /\ size_[res.v] = res.size0

\* C4 (as amended): an insert before end() into a full array that throws (while the
\* target is constructed, or the prefix or the suffix relocated) leaves size,
\* capacity and storage as before the call, leaves no object of the new storage
\* undestroyed and releases the new storage; for a copyable T every element is
\* as before the call as well.
C4_InsertThrowKeepsArray ==
    [][(res'.op = "Emplace" /\ res'.out = "throw" /\ res'.size0 = res'.cap0)
       => (/\ UNCHANGED <<alive, data_, size_>>
           /\ res'.lost = 0
           /\ FreeRegions(mem') = FreeRegions(mem)
           /\ \A v \in Vecs : ConstructedIn(v)' = ConstructedIn(v)
           /\ copyable => mem' = mem)]_vars

C4_Witness ==
    /\ res.op = "Emplace" /\ res.out = "throw"
    /\ copyable /\ ~nothrow_move
    /\ res.size0 = res.cap0 /\ res.size0 >= 2
    /\ res.lost = 0 /\ size_[res.v] = res.size0

\* C4 as stated: the same for every T.
C4_Original ==
    [][(res'.op = "Emplace" /\ res'.out = "throw" /\ res'.size0 = res'.cap0)
       => (UNCHANGED <<alive, data_, size_, mem>> /\ res'.lost = 0)]_vars

\* C5: after every call, however it ends, no object was lost with released storage
\* and the constructed objects of each array are exactly those of slots [0, Size()).
C5_LiveObjectsAreSize ==
    /\ res.lost = 0
    /\ \A v \in Vecs : alive[v] => ConstructedIn(v) = 0 .. (size_[v] - 1)

\* C6: move construction of v from w gives v the size, capacity, storage and
\* elements w had, touches no element, and leaves w as a default-constructed array.
C6_MoveCtorEmptiesSource ==
    [][res'.op = "VectorMove" =>
         \E v \in Vecs : \E w \in Vecs \ {v} :
            /\ res'.v = v
            /\ size_'[v] = size_[w] /\ Cap(v)' = Cap(w)
            /\ Elems(v)' = Elems(w)
            /\ mem' = mem
            /\ size_'[w] = 0 /\ data_'[w] = RawMemoryDefault]_vars

\* C7: every array has Size() <= Capacity(), Capacity() is the number of slots of
\* the storage it owns, and no call accesses a slot outside owned storage.
C7_SizeCapacityStorage ==
    /\ ~res.wild
    /\ \A v \in Vecs : alive[v] => (size_[v] <= Cap(v) /\ Cap(v) = OwnedSlots(v))

\* C8: no region is released twice, no slot of a released region is accessed, and
\* every allocated region is the storage of exactly one constructed array (so
\* none is left when all arrays are destroyed).
C8_StorageReleasedOnce ==
    /\ ~res.dfree /\ ~res.uaf
    /\ \A r \in Regions :
          Live(mem, r) => \E v \in Vecs : alive[v] /\ data_[v].buffer_ = r
    /\ \A v, w \in Vecs :
          (v # w /\ data_[v].buffer_ = data_[w].buffer_) => data_[v].buffer_ = Null
    /\ \A v \in Vecs : ~alive[v] => data_[v].buffer_ = Null

C8_Witness ==
    /\ res.op = "CopyAssign" /\ res.out = "throw"
    /\ \E w \in Vecs \ {res.v} : alive[w] /\ size_[w] > res.cap0
    /\ res.size0 >= 1

\* C9: a call in which the allocation fails leaves every array, its storage and
\* its elements as before the call.
C9_BadAllocKeepsState ==
    [][res'.out = "bad_alloc" => UNCHANGED <<alive, data_, size_, mem>>]_vars

C9_Witness ==
    /\ res.out = "bad_alloc" /\ res.op = "CopyAssign"
    /\ res.size0 >= 1 /\ size_[res.v] = res.size0

\* C10: Reserve(n) with n <= Capacity() changes nothing; Reserve(n) with
\* n > Capacity() that returns ends with Capacity() = n, and Size() and the
\* elements as before.
C10_Reserve ==
    [][\A n \in 0 .. MaxCap : \A af \in Fail(n > Cap(1)) : \A t \in 0 .. size_[1] :
          (res'.op = "Reserve" /\ Reserve(1, n, af, t)) =>
             /\ n <= Cap(1) => (res'.out = "ok" /\ UNCHANGED <<alive, data_, size_, mem>>)
             /\ (n > Cap(1) /\ res'.out = "ok") =>
                   (Cap(1)' = n /\ size_' = size_ /\ Elems(1)' = Elems(1))]_vars

C10_Witness ==
    /\ res.op = "Reserve" /\ res.out = "ok"
    /\ res.cap0 = 2 /\ Cap(res.v) = 3 /\ size_[res.v] = 2

\* The first n elements of v are what they were.
KeepsPrefix(v, n) == \A i \in 1 .. n : Elems(v)'[i] = Elems(v)[i]

\* C11: a Resize(n) that returns, with n < Size(), leaves the first n elements and
\* Capacity() unchanged, destroys exactly the objects of slots [n, old size) and
\* ends with Size() = n; with n > Size(), it leaves the old elements unchanged,
\* makes the elements of [old size, n) equal to T() and ends with Size() = n and
\* Capacity() >= n.
C11_Resize ==
    [][\A v \in Vecs : \A n \in 0 .. MaxCap :
          \A af \in Fail(n > Cap(v)) : \A t \in 0 .. n :
             (res'.op = "Resize" /\ res'.out = "ok" /\ Resize(v, n, af, t)) =>
                /\ n < size_[v] =>
                      /\ size_'[v] = n /\ Cap(v)' = Cap(v)
                      /\ KeepsPrefix(v, n)
                      /\ ConstructedIn(v)' = ConstructedIn(v) \ (n .. (size_[v] - 1))
                /\ n > size_[v] =>
                      /\ size_'[v] = n /\ Cap(v)' >= n
                      /\ KeepsPrefix(v, size_[v])
                      /\ \A i \in (size_[v] + 1) .. n : Elems(v)'[i] = DefaultT]_vars

\* C12: after a copy-assignment v = w that returns, Size() and the elements of v
\* are those of w, w is unchanged, and v and w do not share storage.
C12_CopyAssign ==
    [][\A v \in Vecs : \A w \in Vecs \ {v} :
          \A af \in Fail(size_[w] > Cap(v)) : \A t \in 0 .. size_[w] :
             (res'.op = "CopyAssign" /\ res'.out = "ok" /\ CopyAssign(v, w, af, t)) =>
                /\ size_'[v] = size_[w] /\ Elems(v)' = Elems(w)
                /\ size_'[w] = size_[w] /\ Cap(w)' = Cap(w) /\ Elems(w)' = Elems(w)
                /\ data_'[v].buffer_ # data_'[w].buffer_ \/ data_'[v].buffer_ = Null]_vars

\* C13: a copy-assignment v = w with w.Size() > v.Capacity() in which the allocation
\* of the temporary copy fails or one of its element copies throws ends in that
\* failure; every array, its storage and its elements are as before the call, the
\* copies already made are destroyed and the temporary's storage is released.
C13_CopyAssignTempFails ==
    [][\A v \in Vecs : \A w \in Vecs \ {v} : \A af \in BOOLEAN : \A t \in 0 .. size_[w] :
          (/\ res'.op = "CopyAssign" /\ size_[w] > Cap(v) /\ (af \/ t >= 1)
           /\ CopyAssign(v, w, af, t))
          => (/\ res'.out = (IF af THEN "bad_alloc" ELSE "throw")
              /\ UNCHANGED <<alive, data_, size_, mem>>
              /\ res'.lost = 0)]_vars

C13_Witness ==
    /\ res.op = "CopyAssign" /\ res.out = "throw" /\ res.lost = 0
    /\ res.size0 = 1 /\ res.cap0 = 1 /\ size_[res.v] = 1
    /\ \E w \in Vecs \ {res.v} : alive[w] /\ size_[w] = 2

\* The sequence s with x inserted before its element of index p (from 0).
InsertAt(s, p, x) == SubSeq(s, 1, p) \o <<x>> \o SubSeq(s, p + 1, Len(s))

\* Insert / Emplace of x at begin() + p, p <= size_ (at end() Emplace is EmplaceBack).
InsertCall(v, p, x, af, t) ==
    IF p = size_[v]
    THEN EmplaceBack(v, x, af, t, MaxCap)
    ELSE Emplace(v, p, x, af, t, MaxCap)

\* C14: an Insert/Emplace of x at begin() + p, 0 <= p <= Size(), that returns
\* ends with Size() one larger, x at index p, the elements before p unchanged and
\* each former element i >= p at index i + 1, and returns begin() + p.
C14_Insert ==
    [][\A v \in Vecs : \A p \in 0 .. size_[v] : \A x \in Values :
          \A af \in Fail(Full(v)) : \A t \in 0 .. (size_[v] + 2) :
             (/\ res'.op \in {"Emplace", "EmplaceBack"} /\ res'.out = "ok"
              /\ InsertCall(v, p, x, af, t))
             => (/\ size_'[v] = size_[v] + 1
                 /\ Elems(v)' = InsertAt(Elems(v), p, x)
                 /\ EmplaceOp(Heap(mem), This(v), p, x, af, t).ret = p)]_vars

\* The sequence s without its element of index p (from 0).
RemoveAt(s, p) == SubSeq(s, 1, p) \o SubSeq(s, p + 2, Len(s))

\* C15: an Erase at begin() + p, 0 <= p < Size(), that returns ends with Size() one
\* smaller, Capacity() and the storage unchanged, the elements before p unchanged and
\* each former element i > p at index i - 1; exactly one object, that of the last
\* slot, is destroyed; and it returns begin() + p.
C15_Erase ==
    [][\A v \in Vecs : \A p \in 0 .. (size_[v] - 1) : \A t \in 0 .. (size_[v] - 1 - p) :
          (res'.op = "Erase" /\ res'.out = "ok" /\ Erase(v, p, t)) =>
             /\ size_'[v] = size_[v] - 1
             /\ data_' = data_
             /\ Elems(v)' = RemoveAt(Elems(v), p)
             /\ ConstructedIn(v)' = ConstructedIn(v) \ {size_[v] - 1}
             /\ res'.lost = 0
             /\ EraseOp(Heap(mem), This(v), p, t).ret = p]_vars

C15_Witness ==
    /\ res.op = "Erase" /\ res.out = "ok" /\ res.size0 = 3
    /\ size_[res.v] = 2 /\ Elems(res.v) = <<2, 1>>

\* The slots of the storage v owns, constructed or not.
StorageOf(v) == IF Live(mem, data_[v].buffer_) THEN mem[data_[v].buffer_] ELSE <<>>

\* v has the size, capacity, storage and elements w had, and w those v had; no
\* region is allocated or released and no object is lost.
Exchanged(v, w) ==
    /\ size_'[v] = size_[w] /\ size_'[w] = size_[v]
    /\ Cap(v)' = Cap(w) /\ Cap(w)' = Cap(v)
    /\ Elems(v)' = Elems(w) /\ Elems(w)' = Elems(v)
    /\ StorageOf(v)' = StorageOf(w) /\ StorageOf(w)' = StorageOf(v)
    /\ (data_'[v].buffer_ = Null) = (data_[w].buffer_ = Null)
    /\ (data_'[w].buffer_ = Null) = (data_[v].buffer_ = Null)
    /\ Cardinality(FreeRegions(mem')) = Cardinality(FreeRegions(mem))
    /\ alive' = alive /\ res'.lost = 0

\* C16: v.Swap(w) exchanges size, capacity, storage and elements of v and w
\* and runs no element operation; v.Swap(v) leaves v unchanged.
C16_Swap ==
    [][\A v, w \in Vecs :
          (res'.op = "Swap" /\ Swap(v, w)) =>
             /\ Exchanged(v, w)
             /\ v = w => UNCHANGED <<alive, data_, size_, mem>>]_vars

C16_Witness ==
    /\ res.op = "Swap" /\ res.v = 1 /\ res.size0 = 1 /\ res.cap0 = 1
    /\ size_ = <<2, 1>> /\ Cap(1) = 2 /\ Cap(2) = 1
    /\ Elems(1) = <<1, 2>> /\ Elems(2) = <<2>>

\* C17: v = std::move(w) is a swap: v has the size, capacity, storage and elements
\* w had and w those v had (w is not emptied and v's old elements stay alive in
\* w), no element is constructed or destroyed, and v = std::move(v) leaves v
\* unchanged.
C17_MoveAssignIsSwap ==
    [][\A v, w \in Vecs :
          (res'.op = "MoveAssign" /\ MoveAssign(v, w)) =>
             /\ Exchanged(v, w)
             /\ ConstructedIn(w)' = ConstructedIn(v) /\ ConstructedIn(v)' = ConstructedIn(w)
             /\ v = w => UNCHANGED <<alive, data_, size_, mem>>]_vars

C17_Witness ==
    /\ res.op = "MoveAssign" /\ res.v = 2 /\ res.size0 = 2 /\ res.cap0 = 2
    /\ alive[1] /\ alive[2]
    /\ size_ = <<2, 1>> /\ Cap(1) = 2 /\ Cap(2) = 1
    /\ Elems(1) = <<2, 1>> /\ Elems(2) = <<2>>

\* C18: an Insert/Emplace before end() with Size() < Capacity() that throws leaves
\* Size(), Capacity() and the storage unchanged, a constructed object in every slot
\* of [0, Size()) and none in the slots of [Size(), Capacity()).
C18_InPlaceInsertThrow ==
    [][\A v \in Vecs :
          (/\ res'.op = "Emplace" /\ res'.out = "throw" /\ res'.v = v
           /\ res'.size0 < res'.cap0)
          => (/\ size_' = size_ /\ data_' = data_
              /\ ConstructedIn(v)' = 0 .. (size_[v] - 1))]_vars

\* C19: a copy-assignment v = w with w.Size() <= v.Capacity() in which an element
\* copy throws ends in that exception with Size() and Capacity() of v unchanged,
\* a constructed object in exactly the slots [0, Size()) of v, each holding its old
\* value or the value of the same index of w, and w unchanged.
C19_InPlaceCopyAssignThrow ==
    [][\A v \in Vecs : \A w \in Vecs \ {v} : \A t \in 1 .. size_[w] :
          (/\ res'.op = "CopyAssign" /\ size_[w] <= Cap(v)
           /\ CopyAssign(v, w, FALSE, t))
          => (/\ res'.out = "throw"
              /\ size_' = size_ /\ data_' = data_
              /\ ConstructedIn(v)' = 0 .. (size_[v] - 1)
              /\ \A i \in 1 .. size_[v] :
                    \/ Elems(v)'[i] = Elems(v)[i]
                    \/ i <= size_[w] /\ Elems(v)'[i] = Elems(w)[i]
              /\ Elems(w)' = Elems(w)
              /\ res'.lost = 0)]_vars

\* C20: an append or insert that returns, made with a reference to element i of
\* the same array as its argument, puts the value that element had before the call
\* at the position of the insertion, on both paths.
C20_SelfReferenceArgument ==
    [][\A i \in 0 .. (size_[1] - 1) : \A p \in 0 .. size_[1] :
          \A af \in Fail(Full(1)) : \A t \in 0 .. (size_[1] + 2) :
             (/\ res'.op \in {"Emplace", "EmplaceBack"} /\ res'.out = "ok" /\ res'.ref
              /\ InsertCall(1, p, ElemRef(i), af, t))
             => (/\ size_'[1] = size_[1] + 1
                 /\ Elems(1)' = InsertAt(Elems(1), p, Elems(1)[i + 1]))]_vars

C20_Witness ==
    /\ res.op = "Emplace" /\ res.out = "ok" /\ res.ref
    /\ res.size0 = 2 /\ res.cap0 = 2
    /\ Elems(1) = <<2, 1, 2>>

====
